---- MODULE Spec2Model ----
(***************************************************************************)
(* Snakes and Foxes: the board graph (board.py), the player token          *)
(* (player.py) and the turn/phase controller (game.py) as a state machine. *)
(*                                                                         *)
(* A node is the pair <<circle_idx, node_idx>>; its screen coordinates are *)
(* the ones Board._generate_board computes (NodeXY).  Every method of the  *)
(* source is an operator from a state record to a state record, so that a *)
(* handler is the composition of the calls it makes, in the source's order.*)
(* One action is one call of Game.handle_event or one frame of the main    *)
(* loop (Game.update followed by Game.render).                             *)
(***************************************************************************)
EXTENDS Integers, Sequences, FiniteSets, TLC

\* ------------------------------------------------------------------ sizes
\* Board size: the arguments of Game(num_circles, nodes_per_circle), which
\* Game.__init__ hands to Board.
NumCircles == 3
NodesPerCircle == 2
\* Number of dice rolled at once (dice.py:39 sets 6; scaled down).
NumDice == 2
\* Turn limit (game.py:43 sets 100; scaled down).
max_turns == 4
\* Frames of a player's move animation (player.py:54: move_speed 0.05, so
\* the 20th call of Player.update completes the move; scaled down).
MoveFrames == 1
\* Frames between two pursuit steps (game.py:55 sets 50; scaled down).
movement_delay == 1
\* Frames the "no black pips" message is shown (game.py:184 sets 60; scaled).
NoPipsFrames == 2
\* Frames the capture message is shown (game.py:344 sets 45; scaled).
CaptureFrames == 1

\* ------------------------------------------------------------ board graph
\* Board.nodes_per_circle: set by Board.__init__, never assigned again.
VARIABLE nodes_per_circle

center_x == 900
center_y == 500

None == <<-1, -1>>
\* get_node(0, k) with k % nodes_per_circle # 0 indexes past the one-node
\* list of circle 0: Python raises IndexError.
IndexError == <<-2, -2>>

center_node == <<0, 0>>

\* int(center + radius * cos/sin(2*pi*k/n)) with radius (c+1)*80, for
\* n nodes per circle and circles 1..5, as Board._generate_board computes.
NodeXY(n) ==
  CASE n = 2 -> <<
       << <<1060, 500>>, <<740, 500>> >>,
       << <<1140, 500>>, <<660, 500>> >>,
       << <<1220, 500>>, <<580, 500>> >>,
       << <<1300, 500>>, <<500, 500>> >>,
       << <<1380, 500>>, <<420, 500>> >>
     >>
  [] n = 3 -> <<
       << <<1060, 500>>, <<820, 638>>, <<819, 361>> >>,
       << <<1140, 500>>, <<780, 707>>, <<779, 292>> >>,
       << <<1220, 500>>, <<740, 777>>, <<739, 222>> >>,
       << <<1300, 500>>, <<700, 846>>, <<699, 153>> >>,
       << <<1380, 500>>, <<660, 915>>, <<659, 84>> >>
     >>
  [] n = 4 -> <<
       << <<1060, 500>>, <<900, 660>>, <<740, 500>>, <<900, 340>> >>,
       << <<1140, 500>>, <<900, 740>>, <<660, 500>>, <<900, 260>> >>,
       << <<1220, 500>>, <<900, 820>>, <<580, 500>>, <<899, 180>> >>,
       << <<1300, 500>>, <<900, 900>>, <<500, 500>>, <<899, 100>> >>,
       << <<1380, 500>>, <<900, 980>>, <<420, 500>>, <<899, 20>> >>
     >>
  [] n = 5 -> <<
       << <<1060, 500>>, <<949, 652>>, <<770, 594>>, <<770, 405>>, <<949, 347>> >>,
       << <<1140, 500>>, <<974, 728>>, <<705, 641>>, <<705, 358>>, <<974, 271>> >>,
       << <<1220, 500>>, <<998, 804>>, <<641, 688>>, <<641, 311>>, <<998, 195>> >>,
       << <<1300, 500>>, <<1023, 880>>, <<576, 735>>, <<576, 264>>, <<1023, 119>> >>,
       << <<1380, 500>>, <<1048, 956>>, <<511, 782>>, <<511, 217>>, <<1048, 43>> >>
     >>

\* BoardNode.get_position
get_position(node) ==
  IF node[1] = 0 THEN <<center_x, center_y>>
  ELSE NodeXY(nodes_per_circle)[node[1]][node[2] + 1]

\* The comparison "a.x == b.x and a.y == b.y" the source makes on coordinates.
SameXY(a, b) == get_position(a) = get_position(b)

\* Squared Euclidean distance: the source compares ((dx)**2 + (dy)**2) ** 0.5,
\* which orders integer arguments as their squares do.
Dist2(a, b) ==
  LET pa == get_position(a)
      pb == get_position(b)
  IN (pa[1] - pb[1]) * (pa[1] - pb[1]) + (pa[2] - pb[2]) * (pa[2] - pb[2])

\* Board.nodes[circle_idx] as a list.
nodes(circle_idx) ==
  IF circle_idx = 0 THEN <<center_node>>
  ELSE [k \in 1..nodes_per_circle |-> <<circle_idx, k - 1>>]

AllNodes == {center_node} \cup ((1..(NumCircles - 1)) \X (0..(nodes_per_circle - 1)))

circle_directions(i) == IF i % 2 = 0 THEN -1 ELSE 1

get_node(circle_idx, node_idx) ==
  IF 0 <= circle_idx /\ circle_idx < NumCircles
  THEN IF (node_idx % nodes_per_circle) + 1 \in DOMAIN nodes(circle_idx)
       THEN nodes(circle_idx)[(node_idx % nodes_per_circle) + 1]
       ELSE IndexError
  ELSE None

\* Board._setup_fox_pieces / _setup_snake_pieces: odd / even positions of
\* the outermost circle, in increasing position.
RECURSIVE PiecesFrom(_, _)
PiecesFrom(node_idx, parity) ==
  IF node_idx >= nodes_per_circle THEN <<>>
  ELSE (IF node_idx % 2 = parity THEN <<get_node(NumCircles - 1, node_idx)>> ELSE <<>>)
       \o PiecesFrom(node_idx + 1, parity)

setup_fox_pieces == PiecesFrom(0, 1)
setup_snake_pieces == PiecesFrom(0, 0)

\* Board._setup_special_nodes and Board.apply_special_effect: even outer
\* positions carry snake_target (one circle inward), odd ones fox_target
\* (the node itself); no other node carries an effect.
apply_special_effect(node) ==
  IF node[1] = NumCircles - 1
  THEN IF node[2] % 2 = 0 THEN get_node(node[1] - 1, node[2]) ELSE node
  ELSE node

Contains(seq, x) == \E i \in DOMAIN seq : seq[i] = x
\* list.index
IndexOf(seq, x) == CHOOSE i \in DOMAIN seq : seq[i] = x /\ \A j \in 1..(i - 1) : seq[j] # x

\* is_node_occupied with the centre blocked by player tokens as well.
is_node_occupied_tokens_block_centre(b, node, current_player_node) ==
  (\E i \in DOMAIN b.fox_pieces : SameXY(b.fox_pieces[i], node))
  \/ (\E i \in DOMAIN b.snake_pieces : SameXY(b.snake_pieces[i], node))
  \/ (\E i \in DOMAIN b.player_pieces : SameXY(b.player_pieces[i], node))

\* Board.is_node_occupied, over the board's three piece lists b.fox_pieces,
\* b.snake_pieces, b.player_pieces.
is_node_occupied(b, node, current_player_node) ==
  IF node = center_node
  THEN (\E i \in DOMAIN b.fox_pieces : SameXY(b.fox_pieces[i], node))
       \/ (\E i \in DOMAIN b.snake_pieces : SameXY(b.snake_pieces[i], node))
  ELSE IF Contains(b.fox_pieces, node) THEN current_player_node # node
  ELSE IF Contains(b.snake_pieces, node) THEN current_player_node # node
  ELSE IF \E i \in DOMAIN b.player_pieces : SameXY(node, b.player_pieces[i])
       THEN ~(current_player_node # None /\ SameXY(node, current_player_node))
  ELSE FALSE

\* "not self.is_node_occupied(n, current_node) or (previous_node and
\*  n.x == previous_node.x and n.y == previous_node.y)"
Admitted(b, n, current_node, previous_node) ==
  \/ ~is_node_occupied(b, n, current_node)
  \/ (previous_node # None /\ SameXY(n, previous_node))

\* The outermost-circle test of get_connected_nodes: a player token other
\* than the mover's own, or a fox or snake, on node n.
OccupiedByPlayerXY(b, n, current_node) ==
  \E i \in DOMAIN b.player_pieces :
     SameXY(n, b.player_pieces[i]) /\ ~SameXY(current_node, b.player_pieces[i])

OccupiedByEnemyXY(b, n) ==
  \/ \E i \in DOMAIN b.fox_pieces : SameXY(n, b.fox_pieces[i])
  \/ \E i \in DOMAIN b.snake_pieces : SameXY(n, b.snake_pieces[i])

\* Sequencing of statements: the value of F at the value of v, with v
\* evaluated once and bound, as a Python assignment binds it.
Then(v, F(_)) == CHOOSE r \in {F(x) : x \in {v}} : TRUE

\* The one-element list <<n>> if n is admitted, else the empty list
\* ("if not occupied or is the previous node: connected_nodes.append(n)").
IfAdmitted(b, n, current_node, previous_node) ==
  IF Admitted(b, n, current_node, previous_node) THEN <<n>> ELSE <<>>

\* get_connected_nodes with the outward move of a player token never blocked
\* by a fox or snake.
get_connected_nodes_outward_past_enemies(b, current_node, is_player, previous_node) ==
  IF is_player /\ current_node[1] = NumCircles - 2
  THEN IfAdmitted(b, get_node(current_node[1],
                              current_node[2] + circle_directions(current_node[1])),
                  current_node, previous_node)
       \o (IF OccupiedByPlayerXY(b, get_node(current_node[1] + 1, current_node[2]),
                                 current_node)
           THEN <<>> ELSE <<get_node(current_node[1] + 1, current_node[2])>>)
  ELSE <<>>

\* Board.get_connected_nodes
get_connected_nodes(b, current_node, is_player, previous_node) ==
  LET circle_idx == current_node[1]
      node_idx == current_node[2]
      direction == circle_directions(circle_idx)
  IN
  IF circle_idx = 0
  THEN SelectSeq(nodes(1), LAMBDA n : Admitted(b, n, current_node, previous_node))
  ELSE IF is_player /\ circle_idx = NumCircles - 1 THEN
    LET adj_node == get_node(circle_idx, node_idx + direction)
        inner_node == get_node(circle_idx - 1, node_idx)
    IN (IF ~OccupiedByPlayerXY(b, adj_node, current_node) /\ ~OccupiedByEnemyXY(b, adj_node)
        THEN IF previous_node # None /\ previous_node # adj_node
             THEN <<adj_node, previous_node>> ELSE <<adj_node>>
        ELSE IF previous_node # None THEN <<previous_node>> ELSE <<>>)
       \o IfAdmitted(b, inner_node, current_node, previous_node)
  ELSE
    LET next_node == get_node(circle_idx, node_idx + direction)
        inner_node == IF circle_idx = 1 THEN center_node
                      ELSE get_node(circle_idx - 1, node_idx)
        outer_node == get_node(circle_idx + 1, node_idx)
    IN
    IfAdmitted(b, next_node, current_node, previous_node)
    \o IfAdmitted(b, inner_node, current_node, previous_node)
    \o (IF circle_idx < NumCircles - 1 THEN
          IF is_player /\ circle_idx = NumCircles - 2 THEN
            IF previous_node # None /\ SameXY(outer_node, previous_node)
            THEN <<outer_node>>
            ELSE IF ~(\E i \in DOMAIN b.player_pieces :
                        b.player_pieces[i] = outer_node
                        /\ current_node # b.player_pieces[i])
                    /\ ~OccupiedByEnemyXY(b, outer_node)
                 THEN <<outer_node>> ELSE <<>>
          ELSE IfAdmitted(b, outer_node, current_node, previous_node)
        ELSE <<>>)

\* get_valid_moves with the centre case open to every dice value.
get_valid_moves_any_step(b, current_node, dice_value, is_player, previous_node) ==
  IF current_node[1] = 0
  THEN SelectSeq(nodes(1), LAMBDA n : Admitted(b, n, current_node, previous_node))
  ELSE <<>>

\* get_valid_moves with every other node of the outermost circle open to a
\* player token on it.
get_valid_moves_whole_outer_circle(b, current_node, dice_value, is_player, previous_node) ==
  IF is_player /\ current_node[1] = NumCircles - 1 /\ dice_value = 1
  THEN SelectSeq(nodes(current_node[1]), LAMBDA n : n # current_node)
       \o <<get_node(current_node[1] - 1, current_node[2])>>
  ELSE <<>>

\* Board.get_valid_moves
get_valid_moves(b, current_node, dice_value, is_player, previous_node) ==
  LET circle_idx == current_node[1]
      node_idx == current_node[2]
      direction == circle_directions(circle_idx)
  IN
  IF circle_idx = 0
  THEN IF dice_value = 1
       THEN SelectSeq(nodes(1), LAMBDA n : Admitted(b, n, current_node, previous_node))
       ELSE <<>>
  ELSE IF is_player /\ circle_idx = NumCircles - 1 THEN
    IF dice_value > 1
    THEN IfAdmitted(b, get_node(circle_idx,
                                (node_idx + direction * dice_value) % Len(nodes(circle_idx))),
                    current_node, previous_node)
    ELSE
      LET adj_node == get_node(circle_idx, (node_idx + direction) % nodes_per_circle)
          inner_node == get_node(circle_idx - 1, node_idx)
      IN Then(IfAdmitted(b, adj_node, current_node, previous_node), LAMBDA adj :
           adj
           \o (IF previous_node # None /\ ~Contains(adj, previous_node)
               THEN <<previous_node>> ELSE <<>>)
           \o IfAdmitted(b, inner_node, current_node, previous_node))
  ELSE
    LET same_circle_node ==
          get_node(circle_idx, (node_idx + direction * dice_value) % Len(nodes(circle_idx)))
        inner_node == IF circle_idx = 1 THEN center_node
                      ELSE get_node(circle_idx - 1, node_idx)
        outer_node == get_node(circle_idx + 1, node_idx)
    IN
    IfAdmitted(b, same_circle_node, current_node, previous_node)
    \o (IF dice_value = 1
        THEN IfAdmitted(b, inner_node, current_node, previous_node)
             \o (IF circle_idx < NumCircles - 1 THEN
                   IF is_player /\ circle_idx = NumCircles - 2 THEN
                     IF previous_node # None /\ SameXY(outer_node, previous_node)
                     THEN <<outer_node>>
                     ELSE IF ~OccupiedByPlayerXY(b, outer_node, current_node)
                             /\ ~OccupiedByEnemyXY(b, outer_node)
                          THEN <<outer_node>> ELSE <<>>
                   ELSE <<>>
                 ELSE <<>>)
        ELSE <<>>)

\* SortedInsert that puts a piece before the placed pieces as far from the
\* target as itself.
RECURSIVE SortedInsert_before_equal(_, _, _)
SortedInsert_before_equal(sorted, piece, target_node) ==
  IF sorted = <<>> THEN <<piece>>
  ELSE IF Dist2(Head(sorted), target_node) < Dist2(piece, target_node)
       THEN <<Head(sorted)>> \o SortedInsert_before_equal(Tail(sorted), piece, target_node)
       ELSE <<piece>> \o sorted

\* Board.find_closest_pieces: list.sort is stable, so each piece goes behind
\* the pieces already placed that are no farther from the target.
RECURSIVE SortedInsert(_, _, _)
SortedInsert(sorted, piece, target_node) ==
  IF sorted = <<>> THEN <<piece>>
  ELSE IF Dist2(Head(sorted), target_node) <= Dist2(piece, target_node)
       THEN <<Head(sorted)>> \o SortedInsert(Tail(sorted), piece, target_node)
       ELSE <<piece>> \o sorted

RECURSIVE find_closest_pieces(_, _)
find_closest_pieces(pieces, target_node) ==
  IF pieces = <<>> THEN <<>>
  ELSE SortedInsert(find_closest_pieces(SubSeq(pieces, 1, Len(pieces) - 1), target_node),
                    pieces[Len(pieces)], target_node)

find_closest_foxes(b, target_node) == find_closest_pieces(b.fox_pieces, target_node)
find_closest_snakes(b, target_node) == find_closest_pieces(b.snake_pieces, target_node)

RemoveAt(seq, i) == SubSeq(seq, 1, i - 1) \o SubSeq(seq, i + 1, Len(seq))

\* The candidates of move_piece_toward_player before any occupancy check:
\* same circle, inward, outward.
connected_nodes_raw(piece_node) ==
  LET circle_idx == piece_node[1]
      node_idx == piece_node[2]
      direction == circle_directions(circle_idx)
      next_node_idx == (node_idx + direction) % Len(nodes(circle_idx))
  IN <<get_node(circle_idx, next_node_idx)>>
     \o (IF circle_idx > 0
         THEN <<IF circle_idx = 1 THEN center_node ELSE get_node(circle_idx - 1, node_idx)>>
         ELSE <<>>)
     \o (IF circle_idx < NumCircles - 1 THEN <<get_node(circle_idx + 1, node_idx)>> ELSE <<>>)

\* ClosestNode without the comparison of distances: the first candidate.
ClosestNode_first_candidate(seq, player_node) == seq[1]

\* The first node of seq strictly closer to player_node than all before it
\* ("if distance < min_distance").
RECURSIVE ClosestNode(_, _)
ClosestNode(seq, player_node) ==
  IF Len(seq) = 1 THEN seq[1]
  ELSE Then(ClosestNode(SubSeq(seq, 1, Len(seq) - 1), player_node), LAMBDA best :
         IF Dist2(seq[Len(seq)], player_node) < Dist2(best, player_node)
         THEN seq[Len(seq)] ELSE best)

\* The piece list named by which ("fox" or "snake").
PieceList(b, which) == IF which = "fox" THEN b.fox_pieces ELSE b.snake_pieces

\* The board with the piece at piece_index popped from its list.
Popped(b, which, piece_index) ==
  IF which = "fox" THEN [b EXCEPT !.fox_pieces = RemoveAt(@, piece_index)]
  ELSE [b EXCEPT !.snake_pieces = RemoveAt(@, piece_index)]

\* Placed that appends the node to the list and leaves the piece's entry.
Placed_appended(b, which, piece_index, node) ==
  [pieces |-> Append(PieceList(b, which), node), node |-> node]

\* The piece at piece_index of the list named by which, put on node: the new
\* list and the node returned.
Placed(b, which, piece_index, node) ==
  [pieces |-> [PieceList(b, which) EXCEPT ![piece_index] = node], node |-> node]

\* Board.move_piece_toward_player on the list named by which: the new list
\* and the node returned.
move_piece_toward_player(b, piece_node, player_node, which) ==
  Then(connected_nodes_raw(piece_node), LAMBDA raw :
  Then(IndexOf(PieceList(b, which), piece_node), LAMBDA piece_index :
    IF \E i \in DOMAIN raw : SameXY(raw[i], player_node)
    THEN Placed(b, which, piece_index,
                raw[CHOOSE i \in DOMAIN raw :
                      SameXY(raw[i], player_node)
                      /\ \A j \in 1..(i - 1) : ~SameXY(raw[j], player_node)])
    ELSE
      Then(Popped(b, which, piece_index), LAMBDA b1 :
      Then(get_connected_nodes(b1, piece_node, FALSE, None), LAMBDA connected_nodes :
        IF connected_nodes = <<>>
        THEN [pieces |-> PieceList(b, which), node |-> piece_node]
        ELSE Then(ClosestNode(connected_nodes, player_node), LAMBDA closest_node :
               Placed(b, which, piece_index, closest_node))))))

\* Board.move_fox_toward_player / move_snake_toward_player on the state s.
move_fox_toward_player(s, fox_node, player_node) ==
  Then(move_piece_toward_player(s, fox_node, player_node, "fox"), LAMBDA r :
    [state |-> [s EXCEPT !.fox_pieces = r.pieces], node |-> r.node])

move_snake_toward_player(s, snake_node, player_node) ==
  Then(move_piece_toward_player(s, snake_node, player_node, "snake"), LAMBDA r :
    [state |-> [s EXCEPT !.snake_pieces = r.pieces], node |-> r.node])

\* ---------------------------------------------------------------- state
Players == {1, 2}

VARIABLES
  \* Player (indexed by player_num)
  current_node, previous_node, turn_count, has_reached_outer_circle,
  valid_moves, pieces, active, is_moving, move_progress, target_node,
  \* Board
  fox_pieces, snake_pieces, player_pieces,
  \* Game
  current_player, game_over, winner, dice_rolled, moves_remaining,
  black_pips, red_triangles, green_squiggles,
  show_no_pips_message, show_capture_message, message_timer,
  fox_movement_active, snake_movement_active,
  fox_movement_timer, snake_movement_timer,
  foxes_to_move, snakes_to_move, current_fox_index, current_snake_index,
  current_turn,
  \* history: the token's current node has been on the outermost circle
  \* since its last reset
  occupied_outer,
  \* the last call made on the board or a token from outside the game loop
  \* (as the unit tests make them): its name, its arguments, the board it
  \* found and what it returned
  call

prog_vars == <<current_node, previous_node, turn_count, has_reached_outer_circle,
  valid_moves, pieces, active, is_moving, move_progress, target_node,
  fox_pieces, snake_pieces, player_pieces,
  current_player, game_over, winner, dice_rolled, moves_remaining,
  black_pips, red_triangles, green_squiggles,
  show_no_pips_message, show_capture_message, message_timer,
  fox_movement_active, snake_movement_active,
  fox_movement_timer, snake_movement_timer,
  foxes_to_move, snakes_to_move, current_fox_index, current_snake_index,
  current_turn>>

vars == <<prog_vars, occupied_outer, call, nodes_per_circle>>

\* The program state as one record.
St == [
  current_node |-> current_node, previous_node |-> previous_node,
  turn_count |-> turn_count, has_reached_outer_circle |-> has_reached_outer_circle,
  valid_moves |-> valid_moves, pieces |-> pieces, active |-> active,
  is_moving |-> is_moving, move_progress |-> move_progress, target_node |-> target_node,
  fox_pieces |-> fox_pieces, snake_pieces |-> snake_pieces, player_pieces |-> player_pieces,
  current_player |-> current_player, game_over |-> game_over, winner |-> winner,
  dice_rolled |-> dice_rolled, moves_remaining |-> moves_remaining,
  black_pips |-> black_pips, red_triangles |-> red_triangles,
  green_squiggles |-> green_squiggles,
  show_no_pips_message |-> show_no_pips_message,
  show_capture_message |-> show_capture_message, message_timer |-> message_timer,
  fox_movement_active |-> fox_movement_active,
  snake_movement_active |-> snake_movement_active,
  fox_movement_timer |-> fox_movement_timer, snake_movement_timer |-> snake_movement_timer,
  foxes_to_move |-> foxes_to_move, snakes_to_move |-> snakes_to_move,
  current_fox_index |-> current_fox_index, current_snake_index |-> current_snake_index,
  current_turn |-> current_turn ]

\* The next program state is the record r.
Becomes(r) ==
  /\ current_node' = r.current_node /\ previous_node' = r.previous_node
  /\ turn_count' = r.turn_count
  /\ has_reached_outer_circle' = r.has_reached_outer_circle
  /\ valid_moves' = r.valid_moves /\ pieces' = r.pieces /\ active' = r.active
  /\ is_moving' = r.is_moving /\ move_progress' = r.move_progress
  /\ target_node' = r.target_node
  /\ fox_pieces' = r.fox_pieces /\ snake_pieces' = r.snake_pieces
  /\ player_pieces' = r.player_pieces
  /\ current_player' = r.current_player /\ game_over' = r.game_over
  /\ winner' = r.winner /\ dice_rolled' = r.dice_rolled
  /\ moves_remaining' = r.moves_remaining
  /\ black_pips' = r.black_pips /\ red_triangles' = r.red_triangles
  /\ green_squiggles' = r.green_squiggles
  /\ show_no_pips_message' = r.show_no_pips_message
  /\ show_capture_message' = r.show_capture_message
  /\ message_timer' = r.message_timer
  /\ fox_movement_active' = r.fox_movement_active
  /\ snake_movement_active' = r.snake_movement_active
  /\ fox_movement_timer' = r.fox_movement_timer
  /\ snake_movement_timer' = r.snake_movement_timer
  /\ foxes_to_move' = r.foxes_to_move /\ snakes_to_move' = r.snakes_to_move
  /\ current_fox_index' = r.current_fox_index
  /\ current_snake_index' = r.current_snake_index
  /\ current_turn' = r.current_turn

\* No call from outside the game loop has been made.
NoCall == [op |-> "none"]

\* --------------------------------------------------------------- Player
\* Player.reset
Player_reset(s, p) ==
  [s EXCEPT !.current_node[p] = center_node, !.previous_node[p] = None,
            !.turn_count[p] = 0, !.has_reached_outer_circle[p] = FALSE,
            !.valid_moves[p] = <<>>, !.is_moving[p] = FALSE,
            !.pieces[p] = 2, !.active[p] = TRUE]

\* Player.get_connected_nodes
Player_get_connected_nodes(s, p) ==
  [s EXCEPT !.valid_moves[p] =
     get_connected_nodes(s, s.current_node[p], TRUE, s.previous_node[p])]

\* Player.start_move_animation (the animation path is presentation only)
start_move_animation(s, p, target) ==
  [s EXCEPT !.is_moving[p] = TRUE, !.move_progress[p] = 0, !.target_node[p] = target]

\* Player.move_to_node
move_to_node(s, p, target) ==
  start_move_animation(
    [s EXCEPT !.valid_moves[p] = IF ~Contains(@, target) THEN Append(@, target) ELSE @,
              !.previous_node[p] = s.current_node[p],
              !.has_reached_outer_circle[p] = IF target[1] = NumCircles - 1 THEN TRUE ELSE @],
    p, target)

\* Player.can_win without the test of the current node.
can_win_flag_alone(s, p) == s.has_reached_outer_circle[p]

\* Player.can_win
can_win(s, p) == s.has_reached_outer_circle[p] /\ s.current_node[p] = center_node

\* lose_piece that deactivates the token only when no piece is left.
lose_piece_active_until_zero(s, p) ==
  [s EXCEPT !.pieces[p] = @ - 1, !.active[p] = IF s.pieces[p] - 1 <= 0 THEN FALSE ELSE @]

\* Player.lose_piece: the state after the call; it returns pieces <= 0.
lose_piece(s, p) == [s EXCEPT !.pieces[p] = @ - 1, !.active[p] = FALSE]

\* The landing node when the special effect is applied without exception.
LandingNode_effect_always(target) == apply_special_effect(target)

\* The node Player.update leaves the token on when its move to target
\* completes: the special effect's node, unless that would take the token
\* off the outermost circle.
LandingNode(target) ==
  Then(apply_special_effect(target), LAMBDA effect_node :
    IF ~(target[1] = NumCircles - 1 /\ effect_node[1] # NumCircles - 1)
    THEN effect_node ELSE target)

\* Player.update: one frame of the token's animation.  move_progress counts
\* the calls made since the move began.
Player_update(s, p) ==
  IF ~s.is_moving[p] THEN s
  ELSE IF s.move_progress[p] + 1 >= MoveFrames
  THEN Then([s EXCEPT !.move_progress[p] = @ + 1,
                      !.is_moving[p] = FALSE,
                      !.current_node[p] = LandingNode(s.target_node[p]),
                      !.has_reached_outer_circle[p] =
                         IF s.target_node[p][1] = NumCircles - 1 THEN TRUE ELSE @,
                      !.turn_count[p] = @ + 1], LAMBDA s1 :
       [Player_get_connected_nodes(s1, p) EXCEPT !.target_node[p] = None])
  ELSE [s EXCEPT !.move_progress[p] = @ + 1]

\* ----------------------------------------------------------------- Game
\* winner: 0 is None, otherwise the winning player's player_num.
NoWinner == 0

FaceType == {"BLACK_PIP", "RED_TRIANGLE", "GREEN_SQUIGGLE"}
\* Dice.roll: one face per die.  roll_dice reads the list through count()
\* alone, so the rolls are taken up to the order of the dice: a black pips,
\* then b red triangles, then green squiggles.
Faces(a, b) ==
  [i \in 1..NumDice |-> IF i <= a THEN "BLACK_PIP"
                        ELSE IF i <= a + b THEN "RED_TRIANGLE" ELSE "GREEN_SQUIGGLE"]
Rolls == {r \in [1..NumDice -> FaceType] :
            \E a \in 0..NumDice : \E b \in 0..(NumDice - a) : r = Faces(a, b)}
\* list.count
Count(seq, x) == Cardinality({i \in DOMAIN seq : seq[i] = x})

\* update_player_pieces without the end of the game when no token is active.
update_player_pieces_list_only(s) ==
  [s EXCEPT !.player_pieces =
              (IF s.active[1] THEN <<s.current_node[1]>> ELSE <<>>)
              \o (IF s.active[2] THEN <<s.current_node[2]>> ELSE <<>>)]

\* Game.update_player_pieces
update_player_pieces(s) ==
  [s EXCEPT !.player_pieces =
              (IF s.active[1] THEN <<s.current_node[1]>> ELSE <<>>)
              \o (IF s.active[2] THEN <<s.current_node[2]>> ELSE <<>>),
            !.game_over = IF ~s.active[1] /\ ~s.active[2] THEN TRUE ELSE @,
            !.winner = IF ~s.active[1] /\ ~s.active[2] THEN NoWinner ELSE @]

\* Game.switch_player
switch_player(s) ==
  update_player_pieces(
    IF s.current_player = 1
    THEN IF s.active[2]
         THEN [s EXCEPT !.current_player = 2, !.current_turn = "Black"] ELSE s
    ELSE IF s.active[1]
         THEN [s EXCEPT !.current_player = 1, !.current_turn = "White"] ELSE s)

\* Game.roll_dice
roll_dice(s, dice_values) ==
  Then([s EXCEPT !.black_pips = Count(dice_values, "BLACK_PIP"),
                 !.red_triangles = Count(dice_values, "RED_TRIANGLE"),
                 !.green_squiggles = Count(dice_values, "GREEN_SQUIGGLE"),
                 !.moves_remaining = Count(dice_values, "BLACK_PIP")], LAMBDA s1 :
    IF s1.black_pips = 0
    THEN [s1 EXCEPT !.show_no_pips_message = TRUE, !.message_timer = NoPipsFrames]
    ELSE Player_get_connected_nodes(s1, s1.current_player))

\* Game.move_player
move_player(s, target) ==
  Then(move_to_node(s, s.current_player, target), update_player_pieces)

\* check_game_conditions with the turn limit tested before the win.
check_game_conditions_win_last(s) ==
  Then(IF s.turn_count[1] + s.turn_count[2] >= max_turns
       THEN [s EXCEPT !.game_over = TRUE, !.winner = NoWinner] ELSE s, LAMBDA s1 :
    IF can_win(s1, s1.current_player)
    THEN [s1 EXCEPT !.game_over = TRUE, !.winner = s1.current_player] ELSE s1)

\* Game.check_game_conditions
check_game_conditions(s) ==
  Then(IF can_win(s, s.current_player)
       THEN [s EXCEPT !.game_over = TRUE, !.winner = s.current_player] ELSE s, LAMBDA s1 :
    IF s1.turn_count[1] + s1.turn_count[2] >= max_turns
    THEN [s1 EXCEPT !.game_over = TRUE, !.winner = NoWinner] ELSE s1)

\* reset_game that leaves the foxes and the snakes where they are.
reset_game_keeps_foxes_and_snakes(s) ==
  [s EXCEPT !.current_node = [p \in Players |-> center_node],
            !.previous_node = [p \in Players |-> None],
            !.turn_count = [p \in Players |-> 0],
            !.has_reached_outer_circle = [p \in Players |-> FALSE],
            !.valid_moves = [p \in Players |-> <<>>],
            !.is_moving = [p \in Players |-> FALSE],
            !.pieces = [p \in Players |-> 2],
            !.active = [p \in Players |-> TRUE],
            !.player_pieces = <<center_node, center_node>>,
            !.current_player = 1, !.game_over = FALSE, !.winner = NoWinner,
            !.dice_rolled = FALSE, !.moves_remaining = 0,
            !.fox_movement_active = FALSE, !.snake_movement_active = FALSE,
            !.show_no_pips_message = FALSE, !.show_capture_message = FALSE,
            !.current_turn = "White"]

\* Game.reset_game
reset_game(s) ==
  Then(Player_reset(s, 1), LAMBDA s1 :
  Then(Player_reset(s1, 2), LAMBDA s2 :
  Then([s2 EXCEPT !.current_player = 1, !.game_over = FALSE, !.winner = NoWinner,
                  !.dice_rolled = FALSE, !.moves_remaining = 0,
                  !.black_pips = 0, !.red_triangles = 0, !.green_squiggles = 0,
                  !.fox_movement_active = FALSE, !.snake_movement_active = FALSE,
                  !.fox_movement_timer = 0, !.snake_movement_timer = 0,
                  !.foxes_to_move = <<>>, !.snakes_to_move = <<>>,
                  !.current_fox_index = 0, !.current_snake_index = 0,
                  !.current_turn = "White",
                  !.show_no_pips_message = FALSE, !.show_capture_message = FALSE,
                  !.fox_pieces = setup_fox_pieces,
                  !.snake_pieces = setup_snake_pieces],
       update_player_pieces)))

\* closest[:count]
Prefix(closest, count) ==
  SubSeq(closest, 1, IF count < Len(closest) THEN count ELSE Len(closest))

\* Game.activate_snake_movement
activate_snake_movement(s) ==
  Then(Prefix(find_closest_snakes(s, s.current_node[s.current_player]),
              s.green_squiggles), LAMBDA snakes :
    IF snakes # <<>>
    THEN [s EXCEPT !.snakes_to_move = snakes,
                   !.snake_movement_active = TRUE,
                   !.snake_movement_timer = movement_delay,
                   !.current_snake_index = 0, !.current_turn = "Snakes"]
    ELSE Then([s EXCEPT !.snakes_to_move = snakes, !.dice_rolled = FALSE],
              switch_player))

\* Game.activate_fox_movement
activate_fox_movement(s) ==
  Then(Prefix(find_closest_foxes(s, s.current_node[s.current_player]),
              s.red_triangles), LAMBDA foxes :
    IF foxes # <<>>
    THEN [s EXCEPT !.foxes_to_move = foxes,
                   !.fox_movement_active = TRUE,
                   !.fox_movement_timer = movement_delay,
                   !.current_fox_index = 0, !.current_turn = "Foxes"]
    ELSE IF s.green_squiggles > 0
    THEN Then([s EXCEPT !.foxes_to_move = foxes], activate_snake_movement)
    ELSE Then([s EXCEPT !.foxes_to_move = foxes, !.dice_rolled = FALSE],
              switch_player))

\* The branch "the piece landed on the player" of move_next_fox and
\* move_next_snake: the current player loses a piece.
capture_current_player(s) ==
  Then(lose_piece(s, s.current_player), LAMBDA s1 :
  Then(update_player_pieces(s1), LAMBDA s2 :
    IF s1.pieces[s1.current_player] <= 0
    THEN [s2 EXCEPT !.show_capture_message = TRUE, !.message_timer = CaptureFrames,
                    !.game_over = TRUE, !.winner = NoWinner]
    ELSE [s2 EXCEPT !.show_capture_message = TRUE, !.message_timer = CaptureFrames]))

\* One player's part of the branch "the piece landed on the center node".
capture_on_center_one(s, p) ==
  IF s.active[p] /\ s.current_node[p] = center_node
  THEN Then(lose_piece(s, p), LAMBDA s1 :
         IF s1.pieces[p] <= 0 /\ s1.current_player = p
         THEN [s1 EXCEPT !.show_capture_message = TRUE, !.message_timer = CaptureFrames,
                         !.game_over = TRUE, !.winner = NoWinner]
         ELSE [s1 EXCEPT !.show_capture_message = TRUE, !.message_timer = CaptureFrames])
  ELSE s

\* The branch "the piece landed on the center node" of move_next_fox and
\* move_next_snake.
capture_on_center(s) ==
  Then(capture_on_center_one(s, 1), LAMBDA s1 :
  Then(capture_on_center_one(s1, 2), LAMBDA s2 :
    IF \E p \in Players : s.active[p] /\ s.current_node[p] = center_node
    THEN update_player_pieces(s2) ELSE s2))

\* What move_next_fox and move_next_snake do once the piece stands on
\* new_node: capture the current player, capture on the center, or nothing.
after_piece_move(s, new_node, player_node) ==
  IF SameXY(new_node, player_node) THEN capture_current_player(s)
  ELSE IF new_node = center_node THEN capture_on_center(s)
  ELSE s

\* Game.move_next_fox
move_next_fox(s) ==
  IF s.current_fox_index < Len(s.foxes_to_move)
  THEN Then(move_fox_toward_player(s, s.foxes_to_move[s.current_fox_index + 1],
                                   s.current_node[s.current_player]), LAMBDA moved :
       Then(after_piece_move(moved.state, moved.node,
                             s.current_node[s.current_player]), LAMBDA s1 :
         [s1 EXCEPT !.current_fox_index = @ + 1,
                    !.fox_movement_timer = movement_delay]))
  ELSE IF s.green_squiggles > 0
  THEN Then([s EXCEPT !.fox_movement_active = FALSE], activate_snake_movement)
  ELSE Then([s EXCEPT !.fox_movement_active = FALSE, !.dice_rolled = FALSE],
            switch_player)

\* move_next_snake that leaves dice_rolled set when the queue is used up.
move_next_snake_keeps_dice_rolled(s) ==
  IF s.current_snake_index < Len(s.snakes_to_move)
  THEN Then(move_snake_toward_player(s, s.snakes_to_move[s.current_snake_index + 1],
                                     s.current_node[s.current_player]), LAMBDA moved :
       Then(after_piece_move(moved.state, moved.node,
                             s.current_node[s.current_player]), LAMBDA s1 :
         [s1 EXCEPT !.current_snake_index = @ + 1,
                    !.snake_movement_timer = movement_delay]))
  ELSE Then([s EXCEPT !.snake_movement_active = FALSE], switch_player)

\* Game.move_next_snake
move_next_snake(s) ==
  IF s.current_snake_index < Len(s.snakes_to_move)
  THEN Then(move_snake_toward_player(s, s.snakes_to_move[s.current_snake_index + 1],
                                     s.current_node[s.current_player]), LAMBDA moved :
       Then(after_piece_move(moved.state, moved.node,
                             s.current_node[s.current_player]), LAMBDA s1 :
         [s1 EXCEPT !.current_snake_index = @ + 1,
                    !.snake_movement_timer = movement_delay]))
  ELSE Then([s EXCEPT !.snake_movement_active = FALSE, !.dice_rolled = FALSE],
            switch_player)

\* The phase selection handle_event and update make when the player's moves
\* are used up or none was rolled.
start_enemy_phase(s) ==
  IF s.red_triangles > 0 THEN activate_fox_movement(s)
  ELSE IF s.green_squiggles > 0 THEN activate_snake_movement(s)
  ELSE Then([s EXCEPT !.dice_rolled = FALSE], switch_player)

\* Game.update, "if self.show_no_pips_message: ..."
update_no_pips_message(s) ==
  IF s.show_no_pips_message
  THEN IF s.message_timer - 1 <= 0
       THEN Then([s EXCEPT !.message_timer = @ - 1, !.show_no_pips_message = FALSE],
                 start_enemy_phase)
       ELSE [s EXCEPT !.message_timer = @ - 1]
  ELSE s

\* Game.update, "if self.fox_movement_active and not self.game_over: ..."
update_fox_movement(s) ==
  IF s.fox_movement_active /\ ~s.game_over
  THEN IF s.fox_movement_timer - 1 <= 0
       THEN Then([s EXCEPT !.fox_movement_timer = @ - 1], move_next_fox)
       ELSE [s EXCEPT !.fox_movement_timer = @ - 1]
  ELSE s

\* Game.update, "if self.snake_movement_active and not self.game_over: ..."
update_snake_movement(s) ==
  IF s.snake_movement_active /\ ~s.game_over
  THEN IF s.snake_movement_timer - 1 <= 0
       THEN Then([s EXCEPT !.snake_movement_timer = @ - 1], move_next_snake)
       ELSE [s EXCEPT !.snake_movement_timer = @ - 1]
  ELSE s

\* Game.update
update(s) ==
  Then(Player_update(s, 1), LAMBDA s1 :
  Then(Player_update(s1, 2), LAMBDA s2 :
  Then(update_no_pips_message(s2), LAMBDA s3 :
  Then(update_fox_movement(s3), update_snake_movement))))

\* Game.render: the one thing it writes is the capture message's timer.
render(s) ==
  IF s.show_capture_message
  THEN [s EXCEPT !.message_timer = @ - 1,
                 !.show_capture_message = IF s.message_timer - 1 <= 0 THEN FALSE ELSE @]
  ELSE s

\* accept_move with the test "moves_remaining <= 0" written "< 0".
accept_move_off_by_one(s, selected_node) ==
  Then(move_player(s, selected_node), LAMBDA s1 :
  Then([s1 EXCEPT !.moves_remaining = @ - 1], LAMBDA s2 :
  Then(check_game_conditions(s2), LAMBDA s3 :
    IF s3.game_over THEN [s3 EXCEPT !.dice_rolled = FALSE]
    ELSE IF s3.moves_remaining < 0 THEN start_enemy_phase(s3)
    ELSE s3)))

\* The accepted move selection of handle_event (the body of
\* "if selected_node in self.current_player.valid_moves").
accept_move(s, selected_node) ==
  Then(move_player(s, selected_node), LAMBDA s1 :
  Then([s1 EXCEPT !.moves_remaining = @ - 1], LAMBDA s2 :
  Then(check_game_conditions(s2), LAMBDA s3 :
    IF s3.game_over THEN [s3 EXCEPT !.dice_rolled = FALSE]
    ELSE IF s3.moves_remaining <= 0 THEN start_enemy_phase(s3)
    ELSE s3)))

\* Game.handle_event, "if event.type == KEYDOWN and event.key == K_SPACE and
\* not self.dice_rolled: ..."
handle_roll(s, event) ==
  IF event.type = "KEYDOWN" /\ event.key = "K_SPACE" /\ ~s.dice_rolled
  THEN [roll_dice(s, event.dice_values) EXCEPT !.dice_rolled = TRUE]
  ELSE s

\* handle_click without the test "selected_node in valid_moves".
handle_click_any_node(s, event) ==
  IF s.dice_rolled /\ event.type = "MOUSEBUTTONDOWN" /\ ~s.is_moving[s.current_player]
  THEN IF event.selected_node # None
       THEN accept_move(s, event.selected_node)
       ELSE s
  ELSE s

\* Game.handle_event, "if self.dice_rolled and event.type == MOUSEBUTTONDOWN
\* and not self.current_player.is_moving: ..."
handle_click(s, event) ==
  IF s.dice_rolled /\ event.type = "MOUSEBUTTONDOWN" /\ ~s.is_moving[s.current_player]
  THEN IF Contains(s.valid_moves[s.current_player], event.selected_node)
       THEN accept_move(s, event.selected_node)
       ELSE s
  ELSE s

\* Game.handle_event.  An event is a key press or a mouse click; a click
\* carries the node get_node_at_position finds under it (None: no node), a
\* press of SPACE the faces Dice.roll would return.
handle_event(s, event) ==
  IF s.game_over
  THEN IF event.type = "KEYDOWN" /\ event.key = "K_r" THEN reset_game(s) ELSE s
  ELSE Then(handle_roll(s, event), LAMBDA s1 : handle_click(s1, event))

KeyEvent(key, dice_values) ==
  [type |-> "KEYDOWN", key |-> key, dice_values |-> dice_values, selected_node |-> None]
ClickEvent(selected_node) ==
  [type |-> "MOUSEBUTTONDOWN", key |-> "", dice_values |-> <<>>,
   selected_node |-> selected_node]

\* ------------------------------------------------------------ behaviour
\* The state Game.__init__ leaves on a board of n nodes per circle.
NewGame(n) ==
  /\ nodes_per_circle = n
  /\ current_node = [p \in Players |-> center_node]
  /\ previous_node = [p \in Players |-> None]
  /\ turn_count = [p \in Players |-> 0]
  /\ has_reached_outer_circle = [p \in Players |-> FALSE]
  /\ valid_moves = [p \in Players |-> <<>>]
  /\ pieces = [p \in Players |-> 2]
  /\ active = [p \in Players |-> TRUE]
  /\ is_moving = [p \in Players |-> FALSE]
  /\ move_progress = [p \in Players |-> 0]
  /\ target_node = [p \in Players |-> None]
  /\ fox_pieces = setup_fox_pieces
  /\ snake_pieces = setup_snake_pieces
  /\ player_pieces = <<center_node, center_node>>
  /\ current_player = 1
  /\ game_over = FALSE
  /\ winner = NoWinner
  /\ dice_rolled = FALSE
  /\ moves_remaining = 0
  /\ black_pips = 0 /\ red_triangles = 0 /\ green_squiggles = 0
  /\ show_no_pips_message = FALSE
  /\ show_capture_message = FALSE
  /\ message_timer = 0
  /\ fox_movement_active = FALSE
  /\ snake_movement_active = FALSE
  /\ fox_movement_timer = 0
  /\ snake_movement_timer = 0
  /\ foxes_to_move = <<>>
  /\ snakes_to_move = <<>>
  /\ current_fox_index = 0
  /\ current_snake_index = 0
  /\ current_turn = "White"
  /\ occupied_outer = [p \in Players |-> FALSE]
  /\ call = NoCall

\* The state after Game(NumCircles, NodesPerCircle).
Init == NewGame(NodesPerCircle)

\* Fields the program does not read before it writes them again are kept at
\* their initial values, so that states differing only in such leftovers are
\* one state:
\*   move_progress, target_node: read only while is_moving (player.py:281-293),
\*     written by start_move_animation;
\*   message_timer: read only while a message is shown (game.py:498-500,
\*     590-600), written when one is set;
\*   the pursuit queue, index and timer: read only while the phase is active
\*     (game.py:515-524), written by activate_*_movement;
\*   the dice counts: read by handle_event after a roll, by update while the
\*     no-pips message is shown and by move_next_fox (game.py:105-109, 505-507,
\*     398), written by roll_dice.
DiceLive(s) ==
  s.dice_rolled \/ s.show_no_pips_message \/ s.fox_movement_active \/ s.snake_movement_active

Canon(s) ==
  [s EXCEPT
     !.move_progress = [p \in Players |-> IF s.is_moving[p] THEN @[p] ELSE 0],
     !.target_node = [p \in Players |-> IF s.is_moving[p] THEN @[p] ELSE None],
     !.message_timer = IF s.show_no_pips_message \/ s.show_capture_message THEN @ ELSE 0,
     !.foxes_to_move = IF s.fox_movement_active THEN @ ELSE <<>>,
     !.current_fox_index = IF s.fox_movement_active THEN @ ELSE 0,
     !.fox_movement_timer = IF s.fox_movement_active THEN @ ELSE 0,
     !.snakes_to_move = IF s.snake_movement_active THEN @ ELSE <<>>,
     !.current_snake_index = IF s.snake_movement_active THEN @ ELSE 0,
     !.snake_movement_timer = IF s.snake_movement_active THEN @ ELSE 0,
     !.black_pips = IF DiceLive(s) THEN @ ELSE 0,
     !.red_triangles = IF DiceLive(s) THEN @ ELSE 0,
     !.green_squiggles = IF DiceLive(s) THEN @ ELSE 0]

\* The token of player p has stood on the outermost circle, given that the
\* program state becomes r.
OccupiedOuterAfter(r, p) == occupied_outer[p] \/ r.current_node[p][1] = NumCircles - 1

\* The step to program state r; was_reset: the step ran reset_game.
Step(r, was_reset) ==
  \E c \in {Canon(r)} :
    /\ Becomes(c)
    /\ occupied_outer' = [p \in Players |->
          IF was_reset THEN FALSE ELSE OccupiedOuterAfter(c, p)]
    /\ UNCHANGED <<call, nodes_per_circle>>

\* handle_event for a press of SPACE
KeySpace == \E dice_values \in Rolls :
  \E r \in {handle_event(St, KeyEvent("K_SPACE", dice_values))} : Step(r, FALSE)

\* handle_event for a press of R
KeyR == \E r \in {handle_event(St, KeyEvent("K_r", <<>>))} : Step(r, game_over)

\* handle_event for a mouse click on a node or beside every node
Click == \E selected_node \in AllNodes \cup {None} :
  \E r \in {handle_event(St, ClickEvent(selected_node))} : Step(r, FALSE)

\* One frame of the main loop: Game.update, then Game.render
Frame == \E r \in {Then(update(St), render)} : Step(r, FALSE)

Next == KeySpace \/ KeyR \/ Click \/ Frame

Spec == Init /\ [][Next]_vars

\* -------------------------------------------------- play under fair frames
\* One game, up to its end: the steps of Next taken while the game is not
\* over.  (Once the game is over the one event handled is R, and reset_game
\* leads back to the initial state.)
PlayFrame == ~game_over /\ Frame
Play == (~game_over /\ KeySpace) \/ (~game_over /\ Click) \/ PlayFrame

\* A frame would change the state: ENABLED <<Frame>>_vars, written out (Frame
\* is deterministic, so it is enabled exactly when its result differs).
FrameChanges ==
  \E r \in {Canon(Then(update(St), render))} :
    r # St \/ \E p \in Players : ~occupied_outer[p] /\ OccupiedOuterAfter(r, p)

\* The main loop runs Game.update and Game.render once per iteration
\* (main.py:46-66), so frames keep coming: WF_vars(PlayFrame), with
\* ENABLED <<PlayFrame>>_vars written as the state predicate it equals.
SpecFair ==
  /\ Init /\ [][Play]_vars
  /\ ([]<>~(~game_over /\ FrameChanges) \/ []<><<PlayFrame>>_vars)

\* ------------------------------------------------- calls made on the board
\* Largest position index, in absolute value, passed to get_node.
MaxPosition == 10

\* Board.get_node called with a circle index inside or one beyond the
\* board, and any position index.
GetNodeCall ==
  \E circle_idx \in -1..NumCircles : \E node_idx \in -MaxPosition..MaxPosition :
    /\ call' = [op |-> "get_node", args |-> <<circle_idx, node_idx>>,
                result |-> get_node(circle_idx, node_idx)]
    /\ UNCHANGED <<prog_vars, occupied_outer, nodes_per_circle>>

\* A freshly constructed game whose board is asked for nodes.
SpecNode == Init /\ [][GetNodeCall]_vars

\* Pieces a token may lose by calls of lose_piece (a fresh token has 2).
MaxLosses == 2

\* Largest dice value asked of get_valid_moves.
MaxStep == 2

\* Nodes per circle of the boards asked for move lists: the smallest ring on
\* which the successor of a node differs from its predecessor.
MovesNodesPerCircle == 3

\* The tuples of length n over the set S.
RECURSIVE Tuples(_, _)
Tuples(S, n) ==
  IF n = 0 THEN {<<>>}
  ELSE {Append(t, x) : t \in Tuples(S, n - 1), x \in S}

\* No two of the foxes, the snakes and the tokens in play stand on one node,
\* but for the two tokens on the centre node, where a game starts; a captured
\* token lies on any node, where it was caught.
Apart(foxes, snakes, token_nodes, captured) ==
  /\ \A i, j \in DOMAIN foxes : i # j => foxes[i] # foxes[j]
  /\ \A i, j \in DOMAIN snakes : i # j => snakes[i] # snakes[j]
  /\ \A i \in DOMAIN foxes : \A j \in DOMAIN snakes : foxes[i] # snakes[j]
  /\ \A p \in Players \ captured :
       ~Contains(foxes, token_nodes[p]) /\ ~Contains(snakes, token_nodes[p])
  /\ (captured = {} /\ token_nodes[1] = token_nodes[2]) => token_nodes[1] = center_node

\* The counts of black pips, red triangles and green squiggles that
\* roll_dice can store (game.py:173-175).
RollCounts ==
  {<<Count(r, "BLACK_PIP"), Count(r, "RED_TRIANGLE"), Count(r, "GREEN_SQUIGGLE")>> :
     r \in Rolls}

\* A game on a board of n nodes per circle: as Game.__init__ leaves it, but
\* for the places of the foxes, the snakes and the two tokens, for the
\* tokens of the set captured, which have lost a piece and are out of play
\* (Player.lose_piece, update_player_pieces), and for the dice: no roll is
\* pending when the counts are zero, otherwise the roll of these counts is
\* pending with the player's moves used up.
BoardRolled(n, captured, counts) ==
  /\ nodes_per_circle = n
  /\ \E foxes \in Tuples(AllNodes, Len(setup_fox_pieces)) :
       \E snakes \in Tuples(AllNodes, Len(setup_snake_pieces)) :
       \E token_nodes \in [Players -> AllNodes] :
         /\ Apart(foxes, snakes, token_nodes, captured)
         /\ current_node = token_nodes
         /\ previous_node = [p \in Players |-> None]
         /\ turn_count = [p \in Players |-> 0]
         /\ has_reached_outer_circle = [p \in Players |-> FALSE]
         /\ valid_moves = [p \in Players |-> <<>>]
         /\ pieces = [p \in Players |-> IF p \in captured THEN 1 ELSE 2]
         /\ active = [p \in Players |-> p \notin captured]
         /\ is_moving = [p \in Players |-> FALSE]
         /\ move_progress = [p \in Players |-> 0]
         /\ target_node = [p \in Players |-> None]
         /\ fox_pieces = foxes
         /\ snake_pieces = snakes
         /\ player_pieces = (IF 1 \in captured THEN <<>> ELSE <<token_nodes[1]>>)
                            \o (IF 2 \in captured THEN <<>> ELSE <<token_nodes[2]>>)
         /\ current_player = 1
         /\ game_over = FALSE
         /\ winner = NoWinner
         /\ dice_rolled = (counts # <<0, 0, 0>>)
         /\ moves_remaining = 0
         /\ black_pips = counts[1] /\ red_triangles = counts[2]
         /\ green_squiggles = counts[3]
         /\ show_no_pips_message = FALSE
         /\ show_capture_message = FALSE
         /\ message_timer = 0
         /\ fox_movement_active = FALSE
         /\ snake_movement_active = FALSE
         /\ fox_movement_timer = 0
         /\ snake_movement_timer = 0
         /\ foxes_to_move = <<>>
         /\ snakes_to_move = <<>>
         /\ current_fox_index = 0
         /\ current_snake_index = 0
         /\ current_turn = "White"
         /\ occupied_outer = [p \in Players |-> FALSE]
         /\ call = NoCall

\* A game between two turns: no roll is pending.
BoardInPlay(n, captured) == BoardRolled(n, captured, <<0, 0, 0>>)

\* The board of a game (NodesPerCircle nodes per circle) between two turns.
InitBoard == BoardInPlay(NodesPerCircle, {})

\* The three piece lists of the board.
BoardPieces ==
  [fox_pieces |-> fox_pieces, snake_pieces |-> snake_pieces,
   player_pieces |-> player_pieces]

\* What Player.lose_piece returns: "return self.pieces <= 0", after the
\* decrement.
lose_piece_returns(s, p) == lose_piece(s, p).pieces[p] <= 0

\* Player.lose_piece called on the token of player p.
LosePieceCall ==
  \E p \in Players :
    /\ 2 - pieces[p] < MaxLosses
    /\ call' = [op |-> "lose_piece", args |-> <<p>>,
                self |-> [pieces |-> pieces[p], active |-> active[p]],
                result |-> lose_piece_returns(St, p)]
    /\ \E r \in {lose_piece(St, p)} : pieces' = r.pieces /\ active' = r.active
    /\ UNCHANGED <<current_node, previous_node, turn_count, has_reached_outer_circle,
                   valid_moves, is_moving, move_progress, target_node,
                   fox_pieces, snake_pieces, player_pieces,
                   current_player, game_over, winner, dice_rolled, moves_remaining,
                   black_pips, red_triangles, green_squiggles,
                   show_no_pips_message, show_capture_message, message_timer,
                   fox_movement_active, snake_movement_active,
                   fox_movement_timer, snake_movement_timer,
                   foxes_to_move, snakes_to_move, current_fox_index,
                   current_snake_index, current_turn, occupied_outer,
                   nodes_per_circle>>

\* Board.move_fox_toward_player called for a fox of the board and the node
\* of a token, as move_next_fox calls it.
MoveFoxCall ==
  \E i \in DOMAIN fox_pieces : \E p \in Players :
  \E r \in {move_fox_toward_player(St, fox_pieces[i], current_node[p])} :
    /\ call' = [op |-> "move_fox_toward_player",
                args |-> <<fox_pieces[i], current_node[p]>>,
                board |-> BoardPieces, result |-> r.node]
    /\ fox_pieces' = r.state.fox_pieces
    /\ UNCHANGED <<current_node, previous_node, turn_count, has_reached_outer_circle,
                   valid_moves, pieces, active, is_moving, move_progress, target_node,
                   snake_pieces, player_pieces,
                   current_player, game_over, winner, dice_rolled, moves_remaining,
                   black_pips, red_triangles, green_squiggles,
                   show_no_pips_message, show_capture_message, message_timer,
                   fox_movement_active, snake_movement_active,
                   fox_movement_timer, snake_movement_timer,
                   foxes_to_move, snakes_to_move, current_fox_index,
                   current_snake_index, current_turn, occupied_outer,
                   nodes_per_circle>>

\* Board.move_snake_toward_player called for a snake of the board and the
\* node of a token, as move_next_snake calls it.
MoveSnakeCall ==
  \E i \in DOMAIN snake_pieces : \E p \in Players :
  \E r \in {move_snake_toward_player(St, snake_pieces[i], current_node[p])} :
    /\ call' = [op |-> "move_snake_toward_player",
                args |-> <<snake_pieces[i], current_node[p]>>,
                board |-> BoardPieces, result |-> r.node]
    /\ snake_pieces' = r.state.snake_pieces
    /\ UNCHANGED <<current_node, previous_node, turn_count, has_reached_outer_circle,
                   valid_moves, pieces, active, is_moving, move_progress, target_node,
                   fox_pieces, player_pieces,
                   current_player, game_over, winner, dice_rolled, moves_remaining,
                   black_pips, red_triangles, green_squiggles,
                   show_no_pips_message, show_capture_message, message_timer,
                   fox_movement_active, snake_movement_active,
                   fox_movement_timer, snake_movement_timer,
                   foxes_to_move, snakes_to_move, current_fox_index,
                   current_snake_index, current_turn, occupied_outer,
                   nodes_per_circle>>

\* Board.get_valid_moves called on a board in play, for a node of the board,
\* a dice value, a mover kind and a previous node (or none).  The call leaves
\* the board as it found it: one call is made on each board.
GetValidMovesCall ==
  /\ call = NoCall
  /\ \E from_node \in AllNodes : \E dice_value \in 0..MaxStep :
     \E is_player \in BOOLEAN : \E prev \in AllNodes \cup {None} :
       call' = [op |-> "get_valid_moves",
                args |-> <<from_node, dice_value, is_player, prev>>,
                board |-> BoardPieces,
                result |-> get_valid_moves(BoardPieces, from_node, dice_value,
                                           is_player, prev)]
  /\ UNCHANGED <<prog_vars, occupied_outer, nodes_per_circle>>

\* Board.get_connected_nodes called on a board in play, for a node of the
\* board, a mover kind and a previous node (or none).
GetConnectedNodesCall ==
  /\ call = NoCall
  /\ \E from_node \in AllNodes :
     \E is_player \in BOOLEAN : \E prev \in AllNodes \cup {None} :
       call' = [op |-> "get_connected_nodes",
                args |-> <<from_node, is_player, prev>>,
                board |-> BoardPieces,
                result |-> get_connected_nodes(BoardPieces, from_node, is_player, prev)]
  /\ UNCHANGED <<prog_vars, occupied_outer, nodes_per_circle>>

\* Board.is_node_occupied called on a board in play, for a node of the board
\* and the mover's node (or none).
IsNodeOccupiedCall ==
  /\ call = NoCall
  /\ \E node \in AllNodes : \E current_player_node \in AllNodes \cup {None} :
       call' = [op |-> "is_node_occupied",
                args |-> <<node, current_player_node>>,
                board |-> BoardPieces,
                result |-> is_node_occupied(BoardPieces, node, current_player_node)]
  /\ UNCHANGED <<prog_vars, occupied_outer, nodes_per_circle>>

\* Move lists and occupancy asked of a board in play, of MovesNodesPerCircle
\* nodes per circle.
\* Boards of MovesNodesPerCircle nodes per circle with both tokens in play,
\* or with the second token captured.
InitMoves ==
  \/ BoardInPlay(MovesNodesPerCircle, {})
  \/ BoardInPlay(MovesNodesPerCircle, {2})

SpecMoves ==
  InitMoves /\ [][GetValidMovesCall \/ GetConnectedNodesCall \/ IsNodeOccupiedCall]_vars

\* Pursuit steps and captures, called one by one on a board in play.
SpecPursuit == InitBoard /\ [][LosePieceCall \/ MoveFoxCall \/ MoveSnakeCall]_vars

\* ------------------------------------------------------ steps, as observed
\* The step is an accepted move of token p: handle_event called move_player,
\* which starts the token's animation (game.py:96, player.py:170).
MoveAccepted(p) == ~is_moving[p] /\ is_moving'[p]

\* The step is a dice roll: handle_event called roll_dice (game.py:81-84).
Rolled == ~dice_rolled /\ dice_rolled'

\* The step holds a pursuit step of a fox (game.py:327-391) or of a snake
\* (game.py:411-475): the phase's index moved on by one.
FoxStep == fox_movement_active' /\ current_fox_index' = current_fox_index + 1
SnakeStep == snake_movement_active' /\ current_snake_index' = current_snake_index + 1

\* The step enters the fox phase or the snake phase.
FoxPhaseEntered == ~fox_movement_active /\ fox_movement_active'
SnakePhaseEntered == ~snake_movement_active /\ snake_movement_active'

\* The step is reset_game: the only step that leaves game_over.
WasReset == game_over /\ ~game_over'

Other(p) == 3 - p

\* ---------------------------------------------------------------- claims
\* C1: once a move has left an active token resting on the centre node with
\* its visited-outer-ring flag set, the game is over; no dice roll, accepted
\* move or pursuit step is taken from a state where such a token rests on the
\* centre and the game is still running.
C1_WinEndsGameBeforeFurtherPlay ==
  [][ \A p \in Players :
        (active[p] /\ ~is_moving[p] /\ can_win(St, p) /\ ~game_over)
        => /\ ~Rolled
           /\ \A q \in Players : ~MoveAccepted(q)
           /\ ~FoxStep /\ ~SnakeStep ]_vars

\* C2: can_win() is true exactly when the token's current node has been on
\* the outermost ring since its last reset and is now the centre node, and
\* the visited flag, once set, is cleared only by a reset.
C2_CanWinIffOccupiedOuterAndAtCentre ==
  /\ [](\A p \in Players :
          can_win(St, p) <=> (occupied_outer[p] /\ current_node[p] = center_node))
  /\ [][ \A p \in Players :
           (has_reached_outer_circle[p] /\ ~has_reached_outer_circle'[p]) => WasReset ]_vars

\* A token is back on the centre after having stood on the outermost ring.
C2_Witness ==
  \E p \in Players : occupied_outer[p] /\ can_win(St, p)

\* C3: a pursuit step that puts a fox or snake on the centre node while both
\* tokens are active and on the centre takes a piece from both tokens and
\* deactivates both, in that step.
C3_CentreCapturesBoth ==
  [][ ( /\ \/ (~Contains(fox_pieces, center_node) /\ Contains(fox_pieces', center_node))
           \/ (~Contains(snake_pieces, center_node) /\ Contains(snake_pieces', center_node))
        /\ \A p \in Players : active[p] /\ ~is_moving[p] /\ current_node[p] = center_node )
      => \A p \in Players : ~active'[p] /\ pieces'[p] = pieces[p] - 1 ]_vars

\* C4: while the game is running no active token is on the centre node
\* together with a fox or a snake.
C4_NoPlayerWithEnemyOnCentre ==
  ~game_over =>
    \A p \in Players :
      ~( /\ active[p] /\ current_node[p] = center_node
         /\ (Contains(fox_pieces, center_node) \/ Contains(snake_pieces, center_node)) )

\* C5: in a turn whose roll had no movement outcome (A = 0) no move of a
\* token is accepted: from the roll to the turn switch the step is never
\* an accepted move.
C5_NoMoveAfterZeroRoll ==
  [][ (dice_rolled /\ black_pips = 0 /\ ~game_over)
      => \A p \in Players : ~MoveAccepted(p) ]_vars

C7_PhaseOrder ==
  [][ /\ (fox_movement_active \/ snake_movement_active)
         => \A p \in Players : ~MoveAccepted(p)
      /\ (snake_movement_active /\ current_snake_index > 0) => ~FoxStep ]_vars

\* C8: while a token's animation is in flight (is_moving before and after
\* the step) the step accepts no move and no roll, enters no pursuit phase
\* and leaves the current player as it is.
C8_NothingWhileMoving ==
  [][ (\E p \in Players : is_moving[p] /\ is_moving'[p]) =>
        /\ \A q \in Players : ~MoveAccepted(q)
        /\ ~Rolled
        /\ ~FoxPhaseEntered /\ ~SnakePhaseEntered
        /\ current_player' = current_player ]_vars

\* C9: the fox phase and the snake phase are never active together.
C9_OnePhaseAtATime == ~(fox_movement_active /\ snake_movement_active)

\* C10: under fair frames, whenever a pursuit phase is active, later the
\* game is over or no phase is active and the controller awaits a roll.
C10_PhaseCompletes ==
  (fox_movement_active \/ snake_movement_active)
    ~> (game_over \/ (~dice_rolled /\ ~fox_movement_active /\ ~snake_movement_active))

\* A pursuit phase is active and a click has been accepted during it.
C10_Witness ==
  (fox_movement_active \/ snake_movement_active) /\ moves_remaining < 0 /\ ~game_over

\* C11: game over is absorbing.  From a state where the game is over, every
\* step other than reset_game leaves the winner, the current player, both
\* piece counts and active flags and the fox and snake positions as they
\* are, and is neither a roll, nor an accepted move, nor a pursuit step.
C11_GameOverAbsorbing ==
  [][ (game_over /\ ~WasReset) =>
        /\ game_over'
        /\ winner' = winner /\ current_player' = current_player
        /\ pieces' = pieces /\ active' = active
        /\ fox_pieces' = fox_pieces /\ snake_pieces' = snake_pieces
        /\ ~Rolled /\ \A p \in Players : ~MoveAccepted(p)
        /\ ~FoxStep /\ ~SnakeStep ]_vars

\* A click, while the game runs, on a node that is not in the current
\* player's valid_moves, or beside every node.
InvalidClick ==
  /\ ~game_over
  /\ \E selected_node \in AllNodes \cup {None} :
       /\ ~Contains(valid_moves[current_player], selected_node)
       /\ \E r \in {handle_event(St, ClickEvent(selected_node))} : Step(r, FALSE)

\* C12: a move selection whose destination is not in the current player's
\* valid_moves has no effect: both tokens (nodes, flags, counters), the
\* remaining moves, the phase flags, the current player and the piece lists
\* are what they were.
C12_InvalidSelectionRejected ==
  [][ InvalidClick =>
        UNCHANGED <<current_node, previous_node, has_reached_outer_circle, valid_moves,
                    pieces, active, is_moving, turn_count, moves_remaining, dice_rolled,
                    fox_movement_active, snake_movement_active, current_player,
                    game_over, winner, fox_pieces, snake_pieces, player_pieces>> ]_vars

\* A click on a node outside the current player's non-empty valid_moves can
\* be made while a roll is pending and the token is at rest.
C12_Witness ==
  /\ dice_rolled /\ ~game_over /\ ~is_moving[current_player]
  /\ valid_moves[current_player] # <<>>
  /\ \E selected_node \in AllNodes : ~Contains(valid_moves[current_player], selected_node)

\* C13: get_node never raises.  For a circle index of the board it returns
\* the node at (circle, position mod circle size), which for circle 0 is
\* the centre node at any position; for any other circle index it returns
\* None.
C13_GetNodeTotal ==
  call.op = "get_node" =>
    IF 0 <= call.args[1] /\ call.args[1] < NumCircles
    THEN call.result = (IF call.args[1] = 0 THEN center_node
                        ELSE <<call.args[1], call.args[2] % nodes_per_circle>>)
    ELSE call.result = None

\* C14: lose_piece takes exactly one piece, leaves the token inactive
\* whatever the count, and returns true exactly when no piece is left: false
\* with 1 piece left on a fresh token, true with 0 left on the second call.
C14_LosePiece ==
  call.op = "lose_piece" =>
    /\ pieces[call.args[1]] = call.self.pieces - 1
    /\ ~active[call.args[1]]
    /\ call.result = (pieces[call.args[1]] <= 0)
    /\ call.self.pieces = 2 => (call.result = FALSE /\ pieces[call.args[1]] = 1)
    /\ call.self.pieces = 1 => (call.result = TRUE /\ pieces[call.args[1]] = 0)

\* lose_piece has been called a second time on a token.
C14_Witness == call.op = "lose_piece" /\ call.self.pieces = 1 /\ ~call.self.active

\* C15: in every reachable state, if neither token is active the game is
\* over and has no winner.
C15_BothInactiveEndsGame ==
  (~active[1] /\ ~active[2]) => (game_over /\ winner = NoWinner)

\* Both tokens have been captured.
C15_Witness == ~active[1] /\ ~active[2] /\ pieces[1] < 2 /\ pieces[2] < 2

\* C16: while the controller awaits a roll in a running game the current
\* player's token is active, and a turn that ends with both tokens active
\* passes to the other token.
C16_TurnGoesToActiveToken ==
  /\ []((~dice_rolled /\ ~game_over) => active[current_player])
  /\ [][ (~game_over /\ dice_rolled /\ ~dice_rolled' /\ ~game_over'
          /\ active'[1] /\ active'[2])
           => current_player' = Other(current_player) ]_vars

\* C17: once the combined turn counter of the two players is at max_turns no
\* further player move is started: no step from such a state accepts a move.
C17_NoMoveAtMaxTurns ==
  [][ (turn_count[1] + turn_count[2] >= max_turns)
        => \A p \in Players : ~MoveAccepted(p) ]_vars

\* A board with no piece on it.
EmptyBoard == [fox_pieces |-> <<>>, snake_pieces |-> <<>>, player_pieces |-> <<>>]

\* The directed edges of the board, occupancy ignored: the nodes that
\* get_connected_nodes lists from piece_node on a board with no piece on it
\* (same circle in the circle's direction, inward, outward; from the centre
\* every node of circle 1).
OneHop(piece_node, target) ==
  Contains(get_connected_nodes(EmptyBoard, piece_node, FALSE, None), target)

\* The last call was a pursuit step of a fox or of a snake.
PursuitCall == call.op \in {"move_fox_toward_player", "move_snake_toward_player"}

\* C18: a pursuit step of a fox or snake whose target node is one hop away
\* in the board's directed-edge graph, occupancy ignored, moves the piece onto
\* the target node, whatever else is occupied.
C18_OneHopCaptures ==
  (PursuitCall /\ OneHop(call.args[1], call.args[2])) => call.result = call.args[2]

\* The list a pursuit call moves a piece of: "fox" or "snake".
CallWhich == IF call.op = "move_fox_toward_player" THEN "fox" ELSE "snake"

\* The last call was a pursuit step that found its target among no raw
\* candidate: no capture was possible.
PursuitNoCapture ==
  /\ PursuitCall
  /\ ~\E i \in DOMAIN connected_nodes_raw(call.args[1]) :
        SameXY(connected_nodes_raw(call.args[1])[i], call.args[2])

\* The occupancy-filtered connected nodes of the piece of the last pursuit
\* call, on the board of the call with the piece itself taken off.
CallConnected ==
  get_connected_nodes(
    Popped(call.board, CallWhich, IndexOf(PieceList(call.board, CallWhich), call.args[1])),
    call.args[1], FALSE, None)

CentreMovesCall == call.op = "get_valid_moves" /\ call.args[1] = center_node

\* The nodes some fox, snake or token of the board of the last call stands on.
CallOccupied ==
  {call.board.fox_pieces[i] : i \in DOMAIN call.board.fox_pieces}
  \cup {call.board.snake_pieces[i] : i \in DOMAIN call.board.snake_pieces}
  \cup {call.board.player_pieces[i] : i \in DOMAIN call.board.player_pieces}

\* C20 as stated: the moves from the centre node are all the nodes of
\* circle 1 when the dice value is 1, and none for every other dice value.
C20_CentreMovesAllOfRingOne ==
  CentreMovesCall =>
    IF call.args[2] = 1
    THEN Len(call.result) = nodes_per_circle
         /\ {call.result[i] : i \in DOMAIN call.result} = {n \in AllNodes : n[1] = 1}
    ELSE call.result = <<>>

\* C20, amended: the moves from the centre node with dice value 1 are the
\* nodes of circle 1, by index and each once, that no fox, snake or token
\* stands on or that are the previous node (all of circle 1 when none of its
\* nodes is occupied); for every other dice value there is none.
C20_CentreMovesFreeOrPreviousOfRingOne ==
  CentreMovesCall =>
    IF call.args[2] = 1
    THEN /\ call.result = SelectSeq(nodes(1), LAMBDA n :
                            n \notin CallOccupied \/ n = call.args[4])
         /\ (\A n \in AllNodes : n[1] = 1 => n \notin CallOccupied)
              => Len(call.result) = nodes_per_circle
    ELSE call.result = <<>>

\* Moves were asked from the centre with dice value 1 while two nodes of
\* circle 1 were occupied, one of them the previous node: it alone is a move.
C20_Witness ==
  /\ CentreMovesCall /\ call.args[2] = 1
  /\ \E n, m \in CallOccupied :
       /\ n[1] = 1 /\ m[1] = 1 /\ n # m
       /\ call.args[4] = n
       /\ Contains(call.result, n) /\ ~Contains(call.result, m)

\* The last call asked for the moves of a player token: the connected nodes,
\* or the valid moves for a dice value of 1, from a node a token stands on.
PlayerMovesCall ==
  \/ /\ call.op = "get_connected_nodes" /\ call.args[2]
     /\ Contains(call.board.player_pieces, call.args[1])
  \/ /\ call.op = "get_valid_moves" /\ call.args[2] = 1 /\ call.args[3]
     /\ Contains(call.board.player_pieces, call.args[1])

\* The previous node handed to the last call for moves.
CallPrevious == IF call.op = "get_valid_moves" THEN call.args[4] ELSE call.args[3]

\* The same-circle neighbour of node in its circle's direction of rotation,
\* the inward and the outward neighbour at the same position.
RingSuccessor(node) ==
  <<node[1], (node[2] + circle_directions(node[1])) % nodes_per_circle>>
InwardOf(node) == IF node[1] = 1 THEN center_node ELSE <<node[1] - 1, node[2]>>
OutwardOf(node) == <<node[1] + 1, node[2]>>

C22_OuterTokenMayGoAnywhereOnCircle ==
  (/\ call.op = "get_valid_moves" /\ call.args[2] = 1 /\ call.args[3]
   /\ Contains(call.board.player_pieces, call.args[1])
   /\ call.args[1][1] = NumCircles - 1
   /\ call.args[4] = None
   /\ \A n \in AllNodes :
        (n[1] = NumCircles - 1 /\ n # call.args[1]) \/ n = InwardOf(call.args[1])
          => n \notin CallOccupied)
  => /\ Len(call.result) = nodes_per_circle
     /\ {call.result[i] : i \in DOMAIN call.result}
          = {n \in AllNodes : n[1] = NumCircles - 1 /\ n # call.args[1]}
            \cup {InwardOf(call.args[1])}

\* The nodes a fox or a snake of the board of the last call stands on.
CallEnemies ==
  {call.board.fox_pieces[i] : i \in DOMAIN call.board.fox_pieces}
  \cup {call.board.snake_pieces[i] : i \in DOMAIN call.board.snake_pieces}

\* The last call asked for the moves of a player token on the circle next to
\* the outermost one.
InnerTokenMovesCall == PlayerMovesCall /\ call.args[1][1] = NumCircles - 2

C25_EnemyDoesNotBlockOutwardMove ==
  (/\ InnerTokenMovesCall /\ call.op = "get_valid_moves"
   /\ ~\E i \in DOMAIN call.board.player_pieces :
         call.board.player_pieces[i] = OutwardOf(call.args[1]))
  => Contains(call.result, OutwardOf(call.args[1]))

\* The nodes of the tokens in play on the board of the last call.
CallTokens ==
  {call.board.player_pieces[i] : i \in DOMAIN call.board.player_pieces}

\* C29: is_node_occupied(node, mover_node) is, for the centre, whether a fox
\* or snake is on the centre (tokens never block it); for any other node
\* holding a fox or snake, true unless mover_node is that node; for any other
\* node holding a token in play, true unless mover_node is that node; and
\* false for every other node.
C29_IsNodeOccupiedRule ==
  call.op = "is_node_occupied" =>
    call.result =
      (IF call.args[1] = center_node THEN center_node \in CallEnemies
       ELSE IF call.args[1] \in CallEnemies THEN call.args[2] # call.args[1]
       ELSE IF call.args[1] \in CallTokens THEN call.args[2] # call.args[1]
       ELSE FALSE)

\* Occupancy was asked of a node that only a captured token lies on: it is
\* free.
C29_Witness ==
  /\ call.op = "is_node_occupied"
  /\ call.args[1] # center_node
  /\ \E p \in Players : ~active[p] /\ current_node[p] = call.args[1]
  /\ call.args[1] \notin CallEnemies \cup CallTokens
  /\ call.args[2] # call.args[1]
  /\ ~call.result

\* The nodes of the outermost circle at the odd (parity 1) or even (parity 0)
\* positions, by position.
OuterNodesOfParity(parity) ==
  SelectSeq(nodes(NumCircles - 1), LAMBDA n : n[2] % 2 = parity)

\* C28: reset_game restores the initial state: both tokens on the centre
\* with 2 pieces, active, visited flag and previous node cleared, turn counts
\* 0; player 1 to move; no roll pending, no moves remaining, no fox or snake
\* phase, game not over, no winner; the foxes on the odd and the snakes on
\* the even positions of the outermost circle, in their initial order.
C28_ResetRestoresInitialState ==
  [][ WasReset =>
        /\ current_node' = [p \in Players |-> center_node]
        /\ pieces' = [p \in Players |-> 2]
        /\ active' = [p \in Players |-> TRUE]
        /\ has_reached_outer_circle' = [p \in Players |-> FALSE]
        /\ previous_node' = [p \in Players |-> None]
        /\ turn_count' = [p \in Players |-> 0]
        /\ is_moving' = [p \in Players |-> FALSE]
        /\ current_player' = 1
        /\ ~dice_rolled' /\ moves_remaining' = 0
        /\ ~fox_movement_active' /\ ~snake_movement_active'
        /\ ~game_over' /\ winner' = NoWinner
        /\ fox_pieces' = OuterNodesOfParity(1)
        /\ snake_pieces' = OuterNodesOfParity(0) ]_vars

\* A game that is over, about to be reset, with nothing as it began: a fox
\* and a snake have moved, a token is captured, the other has moved and
\* visited the outermost circle, and player 2 is the current player.
C28_Witness ==
  /\ game_over
  /\ fox_pieces # OuterNodesOfParity(1) /\ snake_pieces # OuterNodesOfParity(0)
  /\ \E p \in Players : ~active[p] /\ pieces[p] < 2
  /\ \E p \in Players : has_reached_outer_circle[p] /\ current_node[p] # center_node
  /\ current_player = 2
  /\ turn_count[1] > 0 /\ turn_count[2] > 0

\* The step completes the move of token p: Player.update found the
\* animation at its end (player.py:286-287).
MoveCompleted(p) == is_moving[p] /\ ~is_moving'[p] /\ ~WasReset

C27_NoExemptionAcrossTurns ==
  [][ (Rolled /\ moves_remaining' > 0) =>
        \A i \in DOMAIN valid_moves'[current_player'] :
          Contains(get_connected_nodes(BoardPieces', current_node'[current_player'],
                                       TRUE, None),
                   valid_moves'[current_player'][i]) ]_vars

\* ------------------------------------------- a token's moves, call by call
\* Nodes per circle of the board on which single tokens are moved: the
\* smallest ring with a node that is neither neighbour of another.
WalkNodesPerCircle == 4

\* Most moves a token is sent on.
MaxWalk == 2

\* A new game on a board of WalkNodesPerCircle nodes per circle.
InitToken == NewGame(WalkNodesPerCircle)

\* The fields of token p that move_to_node and update read and write.
TokenOf(p) ==
  [current_node |-> current_node[p], previous_node |-> previous_node[p],
   target_node |-> target_node[p], is_moving |-> is_moving[p]]

\* Player.move_to_node called on the token of player p, at rest, with any
\* node of the board as target.
MoveToNodeCall ==
  \E p \in Players : \E target \in AllNodes :
    /\ ~is_moving[p] /\ turn_count[p] < MaxWalk
    /\ call' = [op |-> "move_to_node", args |-> <<p, target>>,
                self |-> TokenOf(p), result |-> None]
    /\ \E r \in {Canon(move_to_node(St, p, target))} :
         /\ Becomes(r)
         /\ occupied_outer' = [q \in Players |-> OccupiedOuterAfter(r, q)]
    /\ UNCHANGED nodes_per_circle

\* Player.update called on the token of player p.
UpdateCall ==
  \E p \in Players :
    /\ call' = [op |-> "update", args |-> <<p>>,
                self |-> TokenOf(p), result |-> None]
    /\ \E r \in {Canon(Player_update(St, p))} :
         /\ Becomes(r)
         /\ occupied_outer' = [q \in Players |-> OccupiedOuterAfter(r, q)]
    /\ UNCHANGED nodes_per_circle

SpecToken == InitToken /\ [][MoveToNodeCall \/ UpdateCall]_vars

\* The last call was the Player.update that completed a move of its token:
\* the token was moving before the call and is at rest after it.
CallCompletedMove ==
  call.op = "update" /\ call.self.is_moving /\ ~is_moving[call.args[1]]

\* C23: when a token on the outermost circle is sent to a node of the
\* outermost circle other than its neighbour in the circle's direction and
\* the move completes, the token is on the node it started from.
C23_NonAdjacentOuterMoveStays ==
  ( /\ CallCompletedMove
    /\ call.self.current_node[1] = NumCircles - 1
    /\ call.self.target_node[1] = NumCircles - 1
    /\ call.self.target_node # call.self.current_node
    /\ call.self.target_node # RingSuccessor(call.self.current_node) )
  => current_node[call.args[1]] = call.self.current_node

\* C26: after a completed move of a token from node X to a node Y connected
\* to X, X is in the token's valid_moves, computed from Y.
C26_CanRetraceLastHop ==
  ( /\ CallCompletedMove
    /\ Contains(get_connected_nodes(BoardPieces, call.self.current_node, TRUE, None),
                call.self.target_node) )
  => Contains(valid_moves[call.args[1]], call.self.current_node)

\* ------------------------------------------------ pursuit queues, by call
\* Nodes per circle of the boards on which the pursuit queues are built: the
\* smallest ring with two foxes, two snakes and pairs of nodes equally far
\* from a third.
QueueNodesPerCircle == 4

\* A board with a roll pending that calls for foxes or snakes, the player's
\* moves used up.
InitQueue ==
  \E counts \in RollCounts :
    /\ counts[2] + counts[3] > 0
    /\ BoardRolled(QueueNodesPerCircle, {}, counts)

\* What activate_fox_movement and activate_snake_movement read: the
\* collection, the current player's node and the count rolled.
QueueCall(op, collection, count) ==
  [op |-> op, args |-> <<>>,
   self |-> [collection |-> collection, node |-> current_node[current_player],
             count |-> count],
   result |-> None]

\* Game.activate_fox_movement, called with red triangles rolled as
\* handle_event and update call it (game.py:103-104, 505-506).
ActivateFoxCall ==
  /\ call = NoCall /\ red_triangles > 0
  /\ call' = QueueCall("activate_fox_movement", fox_pieces, red_triangles)
  /\ \E r \in {Canon(activate_fox_movement(St))} :
       /\ Becomes(r)
       /\ occupied_outer' = [q \in Players |-> OccupiedOuterAfter(r, q)]
  /\ UNCHANGED nodes_per_circle

\* Game.activate_snake_movement, called with green squiggles rolled.
ActivateSnakeCall ==
  /\ call = NoCall /\ green_squiggles > 0
  /\ call' = QueueCall("activate_snake_movement", snake_pieces, green_squiggles)
  /\ \E r \in {Canon(activate_snake_movement(St))} :
       /\ Becomes(r)
       /\ occupied_outer' = [q \in Players |-> OccupiedOuterAfter(r, q)]
  /\ UNCHANGED nodes_per_circle

SpecQueue == InitQueue /\ [][ActivateFoxCall \/ ActivateSnakeCall]_vars

\* The place of collection[i] when the collection is put in ascending order
\* of distance to target, pieces equally far in the order of the collection.
QueueRank(collection, i, target) ==
  1 + Cardinality({j \in DOMAIN collection :
        \/ Dist2(collection[j], target) < Dist2(collection[i], target)
        \/ /\ Dist2(collection[j], target) = Dist2(collection[i], target)
           /\ j < i})

\* The first min(count, length) pieces of the collection in that order.
NearestFirst(collection, target, count) ==
  [k \in 1..(IF count < Len(collection) THEN count ELSE Len(collection)) |->
     collection[CHOOSE i \in DOMAIN collection : QueueRank(collection, i, target) = k]]

TurnSwitched ==
  /\ ~dice_rolled'
  /\ current_player' = IF active'[Other(current_player)]
                       THEN Other(current_player) ELSE current_player

\* C32: a fox phase takes one pursuit step per queued fox, in queue order:
\* while the phase lasts the queue stays as it is and the index moves on by
\* at most one per step; the phase ends only when every queued fox has
\* stepped, and then the snake phase is entered if green squiggles were
\* rolled and the turn is switched otherwise.  The snake phase likewise
\* ends, after every queued snake has stepped, with the switch of turn.
C32_PhaseStepsEachQueuedPieceOnce ==
  [][ ~WasReset =>
        /\ (fox_movement_active /\ fox_movement_active') =>
             /\ foxes_to_move' = foxes_to_move
             /\ current_fox_index' \in {current_fox_index, current_fox_index + 1}
        /\ (fox_movement_active /\ ~fox_movement_active') =>
             /\ current_fox_index = Len(foxes_to_move)
             /\ IF green_squiggles > 0 THEN snake_movement_active' ELSE TurnSwitched
        /\ (snake_movement_active /\ snake_movement_active') =>
             /\ snakes_to_move' = snakes_to_move
             /\ current_snake_index' \in {current_snake_index, current_snake_index + 1}
        /\ (snake_movement_active /\ ~snake_movement_active') =>
             /\ current_snake_index = Len(snakes_to_move)
             /\ TurnSwitched ]_vars

\* ------------------------------------------- single pursuit steps, by call
\* A board of MovesNodesPerCircle nodes per circle (one fox, two snakes)
\* between two turns.
InitStep == BoardInPlay(MovesNodesPerCircle, {})

\* One pursuit step of a fox, or of a snake, on each board.
StepFoxCall == call = NoCall /\ MoveFoxCall
StepSnakeCall == call = NoCall /\ MoveSnakeCall

SpecStep == InitStep /\ [][StepFoxCall \/ StepSnakeCall]_vars

\* C33: a pursuit step leaves the moved piece's collection with its length
\* and order, changes at most the moved piece's own entry, which becomes the
\* node returned (the piece's own node, nothing changed, when it can neither
\* capture nor has a connected node), and leaves the other collection, the
\* nodes of the player tokens and the board's token list unchanged.
C33_PursuitStepFrame ==
  [][ (call' # call
       /\ call'.op \in {"move_fox_toward_player", "move_snake_toward_player"}) =>
        LET fox == call'.op = "move_fox_toward_player"
            before == IF fox THEN fox_pieces ELSE snake_pieces
            after == IF fox THEN fox_pieces' ELSE snake_pieces'
            piece_index == IndexOf(before, call'.args[1])
            boxed_in ==
              /\ ~\E i \in DOMAIN connected_nodes_raw(call'.args[1]) :
                    SameXY(connected_nodes_raw(call'.args[1])[i], call'.args[2])
              /\ get_connected_nodes(
                   Popped(BoardPieces, IF fox THEN "fox" ELSE "snake", piece_index),
                   call'.args[1], FALSE, None) = <<>>
        IN /\ Len(after) = Len(before)
           /\ \A k \in DOMAIN before : k # piece_index => after[k] = before[k]
           /\ after[piece_index] = call'.result
           /\ boxed_in => (call'.result = call'.args[1] /\ after = before)
           /\ IF fox THEN snake_pieces' = snake_pieces ELSE fox_pieces' = fox_pieces
           /\ current_node' = current_node
           /\ player_pieces' = player_pieces ]_vars

\* The second snake of the collection has stepped to another node, the
\* first snake and the fox are where they were.
C33_Witness ==
  /\ call.op = "move_snake_toward_player"
  /\ Len(call.board.snake_pieces) = 2
  /\ call.args[1] = call.board.snake_pieces[2]
  /\ call.result # call.args[1]
  /\ snake_pieces = <<call.board.snake_pieces[1], call.result>>
  /\ fox_pieces = call.board.fox_pieces

\* C34: the moves accepted in a turn never exceed the count A of black pips
\* rolled: moves_remaining is never negative, it is at most A while the roll
\* is pending, and no move is accepted while moves_remaining is 0.
C34_MovesWithinRolledCount ==
  [][ /\ 0 <= moves_remaining'
      /\ dice_rolled' => moves_remaining' <= black_pips'
      /\ \A p \in Players : MoveAccepted(p) => moves_remaining > 0 ]_vars

\* The current nodes of the active tokens, player 1 first.
ActiveTokenNodes ==
  (IF active[1] THEN <<current_node[1]>> ELSE <<>>)
  \o (IF active[2] THEN <<current_node[2]>> ELSE <<>>)

\* C35: whenever no token's move animation is in flight, board.player_pieces
\* is the list of the current nodes of the active tokens.
C35_PlayerPiecesAreActiveTokenNodes ==
  (\A p \in Players : ~is_moving[p]) => player_pieces = ActiveTokenNodes

\* C36: the two player tokens, when both are active, never stand on the same
\* node other than the centre node.
C36_ActiveTokensApart ==
  (active[1] /\ active[2] /\ current_node[1] = current_node[2])
    => current_node[1] = center_node

\* C37: a game that is over with no winner while the combined turn count is
\* below max_turns has no active token.
C37_EarlyLossMeansBothInactive ==
  (game_over /\ winner = NoWinner /\ turn_count[1] + turn_count[2] < max_turns)
    => (~active[1] /\ ~active[2])

\* C38: a captured token (active false) is out of play until the game is
\* reset: no pursuit step is taken toward it as the current player, it loses
\* no further piece, and so each token's piece count stays within 1..2.
C38_CapturedTokenOutOfPlay ==
  [][ ~WasReset =>
        /\ \A p \in Players : ~active[p] => pieces'[p] = pieces[p]
        /\ (FoxStep \/ SnakeStep) => active[current_player]
        /\ \A p \in Players : pieces'[p] \in 1..2 ]_vars

\* C39: whenever the controller awaits a roll and the game is not over, the
\* turn label names the current player: "White" for player 1, "Black" for
\* player 2.
C39_TurnLabelNamesCurrentPlayer ==
  (~dice_rolled /\ ~game_over)
    => current_turn = (IF current_player = 1 THEN "White" ELSE "Black")

\* C40: at the check of the game conditions that follows an accepted move,
\* when the current player's can_win() is true and the combined turn count
\* has reached max_turns, the game ends with no winner.
C40_TurnLimitBeforeWin ==
  [][ ( /\ ~game_over
        /\ MoveAccepted(current_player)
        /\ has_reached_outer_circle[current_player]
        /\ current_node[current_player] = center_node
        /\ turn_count[1] + turn_count[2] >= max_turns )
      => (game_over' /\ winner' = NoWinner) ]_vars

\* The game has ended with no winner on the move of a token that stood on
\* the centre with its visited flag set, the combined turn count at
\* max_turns: the move is still in flight.
C40_Witness ==
  /\ game_over /\ winner = NoWinner
  /\ turn_count[1] + turn_count[2] >= max_turns
  /\ \E p \in Players :
       /\ is_moving[p] /\ active[p]
       /\ has_reached_outer_circle[p] /\ current_node[p] = center_node

====
